---- MODULE Spec2Model ----
(***************************************************************************)
(* Model of the issue-bot repository: the Stale-PR Bot                     *)
(* (src/openwisp_utils/stale_pr_bot.py) and the Reopen and Activity Bots   *)
(* (src/openwisp_utils/pr_reopen_bot.py), run against an issue tracker     *)
(* whose state (pull requests, reviews, commits, comments, labels, issues  *)
(* and assignees) is the state of the model.                               *)
(***************************************************************************)
EXTENDS Integers, Sequences, FiniteSets, TLC

VARIABLES
    now,            \* the tracker's clock, in ticks (TicksPerDay ticks a day)
    prState,        \* prState[p]: "open" or "closed"
    prLabels,       \* prLabels[p]: the label names of pull request p
    reviews,        \* reviews[p]: the review history of p
    commits,        \* commits[p]: the commits reachable from p's head
    prComments,     \* prComments[p]: the issue comments of p
    assignees,      \* assignees[n]: the logins assigned to issue n
    issueComments,  \* issueComments[n]: the comments of issue n
    pc,             \* "idle", or "loop" inside StalePRBot.process_stale_prs
    open_prs,       \* what is left of the list read by process_stale_prs
    last,           \* locals and result of the handler step just taken
    events,         \* how many reviews, commits, comments and reopenings
                    \* the tracker's users have made
    failed          \* the remote calls that raised in the handler step just taken

vars == <<now, prState, prLabels, reviews, commits, prComments, assignees,
          issueComments, pc, open_prs, last, events, failed>>

tracker == <<prState, prLabels, prComments, assignees, issueComments>>

-----------------------------------------------------------------------------
(* Bounds of the model *)

\* ticks of the clock in one day: a timestamp is finer than a day
TicksPerDay == 2

\* reviews, commits, comments and reopenings by the tracker's users
MaxEvents == 2

\* comments one pull request can collect before the bots stop being run
MaxComments == 4

\* comments one issue can collect before the Reopen Bot stops being run
MaxIssueComments == 2

\* remote calls that fail within one handler step, where calls may fail
MaxFaults == 1

-----------------------------------------------------------------------------
(* Program constants *)

DAYS_BEFORE_STALE_WARNING == 7
DAYS_BEFORE_UNASSIGN == 14
DAYS_BEFORE_CLOSE == 60

-----------------------------------------------------------------------------
(* The repository the bots run against *)

\* None: Python's None for a timestamp (timestamps are >= 0)
None == -1

\* the account the bots' token belongs to; GitHub reports its type as "Bot"
BotLogin == "github-actions[bot]"

Users == {"alice", "bob"}

\* pull requests and issues share one number space
PRs == {1, 2}
Issues == {3, 4}

\* a number no issue or pull request has: get_issue and get_pull raise (404)
MissingNumber == 9

Word(w) == [word |-> w, num |-> 0]
Ref(n) == [word |-> "#", num |-> n]

\* pr.user.login
prAuthor(p) == IF p = 1 THEN "alice" ELSE "bob"

\* pr.body, as the whitespace-separated tokens of the text
prBody(p) ==
    IF p = 1
    THEN <<Word("Fixes"), Ref(3), Word("and"), Word("closes"), Ref(2),
           Word("see"), Ref(4), Word("RESOLVED"), Ref(MissingNumber)>>
    ELSE <<Word("fix"), Ref(3), Word("resolves"), Ref(4), Word("fixes"), Ref(3)>>

\* the instants the clock is observed at: the start, one tick after it, and
\* the day each threshold is reached counted from the start
MarkDays == {0, DAYS_BEFORE_STALE_WARNING, DAYS_BEFORE_UNASSIGN, DAYS_BEFORE_CLOSE}
Instants == {d * TicksPerDay : d \in MarkDays} \cup {1}

-----------------------------------------------------------------------------
(* The texts the bots post, by the name of the variable that holds them,    *)
(* and the marker phrases StalePRBot.has_bot_comment looks for in them      *)

\* lower-cased marker phrases each message text contains; the logins and day
\* counts interpolated into the texts contain none of the phrases
MarkersIn(body) ==
    CASE body = "warning_message" -> {"reminder", "unassigned"}
      [] body = "unassign_message" -> {"stale", "unassigned"}
      [] body = "close_message" -> {}
      [] body = "encouragement_message" -> {"stale"}
      [] body = "welcome_message" -> {}
      [] body = "stale_text" -> {"stale"}
      [] OTHER -> {}

Comment(login, type, body, t) ==
    [login |-> login, type |-> type, body |-> body, created_at |-> t]

-----------------------------------------------------------------------------
(* Remote calls and their failures *)

\* a remote call of one handler step: its name and the number it is about
Call(name, n) == [call |-> name, n |-> n]

CallNames ==
    {"get_pulls", "get_reviews", "get_commits", "get_issue_comments",
     "has_bot_comment_1", "has_bot_comment_2", "create_issue_comment", "edit",
     "add_to_labels", "get_pull", "get_labels", "remove_from_labels",
     "get_issue", "remove_from_assignees", "add_to_assignees", "create_comment"}

Calls == {Call(c, n) : c \in CallNames, n \in PRs \cup Issues \cup {MissingNumber}}

\* the sequences over S of length at most n
SeqsUpTo(S, n) == UNION {[1..k -> S] : k \in 0..n}

RECURSIVE SetsUpTo(_, _)
\* the subsets of S with at most k elements
SetsUpTo(S, k) ==
    IF k = 0 THEN {{}}
    ELSE LET T == SetsUpTo(S, k - 1)
         IN T \cup {t \cup {c} : t \in T, c \in S}

\* the sets of calls that fail in one step when the tracker may fail
FaultSets == SetsUpTo(Calls, MaxFaults)

\* the tracker state the handlers read and change
World ==
    [prState |-> prState, prLabels |-> prLabels, prComments |-> prComments,
     assignees |-> assignees, issueComments |-> issueComments]

\* repo.get_issue(n) raises for a number that is no issue and no pull request
IssueFound(n, F) == n \in PRs \cup Issues /\ Call("get_issue", n) \notin F

\* repo.get_pull(n) raises for a number that is no pull request
PullFound(n, F) == n \in PRs /\ Call("get_pull", n) \notin F

-----------------------------------------------------------------------------
(* Linked-issue extractor: the three bots hold the same code *)

\* str.lower on the words of the model (re.IGNORECASE)
Lower(w) ==
    CASE w = "Fixes" -> "fixes"
      [] w = "RESOLVED" -> "resolved"
      [] w = "Closed" -> "closed"
      [] OTHER -> w

\* the words (?:fix(?:es)?|close[sd]?|resolve[sd]?) matches in full
Keywords ==
    {"fix", "fixes", "close", "closes", "closed", "resolve", "resolves", "resolved"}

\* the part of the lower-cased word w the keyword alternatives match right
\* before the whitespace that follows w, "" when there is none: the pattern
\* has no word boundary in front, so the match may begin inside the word
MatchAtEnd(w) ==
    CASE w \in Keywords -> w
      [] w = "hotfix" -> "fix"
      [] w = "unresolved" -> "resolved"
      [] OTHER -> ""

\* re.findall(issue_pattern, pr_body, re.IGNORECASE): the numbers of the "#N"
\* tokens that follow a token the keyword alternatives match at its end
Matches(pr_body) ==
    {pr_body[i + 1].num : i \in {j \in 1..(Len(pr_body) - 1) :
        /\ MatchAtEnd(Lower(pr_body[j].word)) # ""
        /\ pr_body[j + 1].word = "#"}}

RECURSIVE ListOf(_)
\* list(set(...)): the order of the list is the set's; ascending here
ListOf(S) ==
    IF S = {} THEN <<>>
    ELSE LET m == CHOOSE x \in S : \A y \in S : x <= y
         IN <<m>> \o ListOf(S \ {m})

extract_linked_issues(pr_body) ==
    IF pr_body = <<>> THEN <<>> ELSE ListOf(Matches(pr_body))

-----------------------------------------------------------------------------
(* StalePRBot *)

RECURSIVE LatestSubmitted(_, _)
\* the first element after sort(key=submitted_at, reverse=True)
LatestSubmitted(rs, best) ==
    IF rs = <<>> THEN best
    ELSE LatestSubmitted(Tail(rs),
             IF Head(rs).submitted_at > best THEN Head(rs).submitted_at ELSE best)

\* get_last_changes_requested without the filter on the review state
get_last_changes_requested_AnyReview(p, F) ==
    IF Call("get_reviews", p) \in F THEN None
    ELSE IF reviews[p] = <<>> THEN None
    ELSE LatestSubmitted(reviews[p], None)

\* the date of the most recent CHANGES_REQUESTED review, None without one and
\* None when listing the reviews fails
get_last_changes_requested(p, F) ==
    IF Call("get_reviews", p) \in F THEN None
    ELSE LET changes_requested_reviews ==
                 SelectSeq(reviews[p], LAMBDA r : r.state = "CHANGES_REQUESTED")
         IN IF changes_requested_reviews = <<>> THEN None
            ELSE LatestSubmitted(changes_requested_reviews, None)

RECURSIVE ScanCommits_AnyAuthor(_, _, _, _)
\* the loop over the commits without the check of the commit's author
ScanCommits_AnyAuthor(cs, pr_author, last_changes_requested, last_author_activity) ==
    IF cs = <<>> THEN last_author_activity
    ELSE LET commit_date == Head(cs).date
             counts ==
                 /\ commit_date > last_changes_requested
                 /\ (last_author_activity = None \/ commit_date > last_author_activity)
         IN ScanCommits_AnyAuthor(Tail(cs), pr_author, last_changes_requested,
                                  IF counts THEN commit_date ELSE last_author_activity)

RECURSIVE ScanCommits(_, _, _, _)
\* the loop over the commits: the running last_author_activity
ScanCommits(cs, pr_author, last_changes_requested, last_author_activity) ==
    IF cs = <<>> THEN last_author_activity
    ELSE LET commit == Head(cs)
             commit_date == commit.date
             counts ==
                 /\ commit_date > last_changes_requested
                 /\ commit.login # "" /\ commit.login = pr_author
                 /\ (last_author_activity = None \/ commit_date > last_author_activity)
         IN ScanCommits(Tail(cs), pr_author, last_changes_requested,
                        IF counts THEN commit_date ELSE last_author_activity)

RECURSIVE ScanComments(_, _, _, _)
\* the loop over the comments: the running last_author_activity
ScanComments(cs, pr_author, last_changes_requested, last_author_activity) ==
    IF cs = <<>> THEN last_author_activity
    ELSE LET comment == Head(cs)
             comment_date == comment.created_at
             counts ==
                 /\ comment.login = pr_author
                 /\ comment_date > last_changes_requested
                 /\ (last_author_activity = None \/ comment_date > last_author_activity)
         IN ScanComments(Tail(cs), pr_author, last_changes_requested,
                         IF counts THEN comment_date ELSE last_author_activity)

\* (now - reference_date).days: timedelta.days is the floor of the quotient
WholeDays(delta) == delta \div TicksPerDay

\* days since the author's last activity after the review; 0 when a listing fails
get_days_since_activity(w, p, last_changes_requested, F) ==
    IF last_changes_requested = None THEN 0
    ELSE IF Call("get_commits", p) \in F \/ Call("get_issue_comments", p) \in F
    THEN 0
    ELSE LET pr_author == prAuthor(p)
             after_commits ==
                 ScanCommits(commits[p], pr_author, last_changes_requested, None)
             last_author_activity ==
                 ScanComments(w.prComments[p], pr_author, last_changes_requested,
                              after_commits)
             reference_date ==
                 IF last_author_activity # None THEN last_author_activity
                 ELSE last_changes_requested
         IN WholeDays(now - reference_date)

\* has_bot_comment looking at the comments of User accounts
has_bot_comment_UserType(w, p, comment_type, call, F) ==
    IF Call(call, p) \in F THEN FALSE
    ELSE \E i \in 1..Len(w.prComments[p]) :
             /\ w.prComments[p][i].type = "User"
             /\ comment_type \in MarkersIn(w.prComments[p][i].body)

\* whether a comment of a Bot account contains the phrase; False when the
\* listing fails (call names the listing: the bot lists afresh for each phrase)
has_bot_comment(w, p, comment_type, call, F) ==
    IF Call(call, p) \in F THEN FALSE
    ELSE \E i \in 1..Len(w.prComments[p]) :
             /\ w.prComments[p][i].type = "Bot"
             /\ comment_type \in MarkersIn(w.prComments[p][i].body)

\* pr.create_issue_comment(body) by the bot's account
create_issue_comment(w, p, body) ==
    [w EXCEPT !.prComments[p] = Append(@, Comment(BotLogin, "Bot", body, now))]

RECURSIVE UnassignLoop(_, _, _, _, _)
\* the loop of unassign_linked_issues: [w, count] after the issues left
UnassignLoop(w, linked_issues, pr_author, unassigned_count, F) ==
    IF linked_issues = <<>> THEN [w |-> w, ret |-> unassigned_count]
    ELSE LET issue_number == Head(linked_issues)
             rest == Tail(linked_issues)
         IN IF ~IssueFound(issue_number, F)
            THEN UnassignLoop(w, rest, pr_author, unassigned_count, F)
            ELSE IF issue_number \in PRs
            THEN UnassignLoop(w, rest, pr_author, unassigned_count, F)
            ELSE IF pr_author \in w.assignees[issue_number]
            THEN IF Call("remove_from_assignees", issue_number) \in F
                 THEN UnassignLoop(w, rest, pr_author, unassigned_count, F)
                 ELSE UnassignLoop(
                          [w EXCEPT !.assignees[issue_number] = @ \ {pr_author}],
                          rest, pr_author, unassigned_count + 1, F)
            ELSE UnassignLoop(w, rest, pr_author, unassigned_count, F)

unassign_linked_issues(w, p, F) ==
    UnassignLoop(w, extract_linked_issues(prBody(p)), prAuthor(p), 0, F)

\* close_stale_pr without the call of unassign_linked_issues
close_stale_pr_NoUnassign(w, p, days_inactive, F) ==
    IF Call("create_issue_comment", p) \in F THEN [w |-> w, ret |-> FALSE]
    ELSE LET w1 == [w EXCEPT !.prComments[p] =
                        Append(@, Comment(BotLogin, "Bot", "close_message", now))]
         IN IF Call("edit", p) \in F THEN [w |-> w1, ret |-> FALSE]
            ELSE [w |-> [w1 EXCEPT !.prState[p] = "closed"], ret |-> TRUE]

\* post the closing message, close the pull request, unassign its issues
close_stale_pr(w, p, days_inactive, F) ==
    IF Call("create_issue_comment", p) \in F THEN [w |-> w, ret |-> FALSE]
    ELSE LET w1 == create_issue_comment(w, p, "close_message")
         IN IF Call("edit", p) \in F THEN [w |-> w1, ret |-> FALSE]
            ELSE LET w2 == [w1 EXCEPT !.prState[p] = "closed"]
                 IN [w |-> unassign_linked_issues(w2, p, F).w, ret |-> TRUE]

\* post the stale notice, unassign the issues, add the "stale" label
mark_pr_stale(w, p, days_inactive, F) ==
    IF Call("create_issue_comment", p) \in F THEN [w |-> w, ret |-> FALSE]
    ELSE LET w1 == create_issue_comment(w, p, "unassign_message")
             w2 == unassign_linked_issues(w1, p, F).w
             w3 == IF Call("add_to_labels", p) \in F THEN w2
                   ELSE [w2 EXCEPT !.prLabels[p] = @ \cup {"stale"}]
         IN [w |-> w3, ret |-> TRUE]

send_stale_warning(w, p, days_inactive, F) ==
    IF Call("create_issue_comment", p) \in F THEN [w |-> w, ret |-> FALSE]
    ELSE [w |-> create_issue_comment(w, p, "warning_message"), ret |-> TRUE]

\* the chain with the thresholds tested lowest first
SelectTier_WarnFirst(days_inactive) ==
    IF days_inactive >= DAYS_BEFORE_STALE_WARNING THEN "warn"
    ELSE IF days_inactive >= DAYS_BEFORE_UNASSIGN THEN "unassign"
    ELSE IF days_inactive >= DAYS_BEFORE_CLOSE THEN "close"
    ELSE "none"

\* the if/elif chain of process_stale_prs over the thresholds
SelectTier(days_inactive) ==
    IF days_inactive >= DAYS_BEFORE_CLOSE THEN "close"
    ELSE IF days_inactive >= DAYS_BEFORE_UNASSIGN THEN "unassign"
    ELSE IF days_inactive >= DAYS_BEFORE_STALE_WARNING THEN "warn"
    ELSE "none"

\* the guard of the unassign tier
UnassignGuard(w, p, F) ==
    /\ ~has_bot_comment(w, p, "stale", "has_bot_comment_1", F)
    /\ ~has_bot_comment(w, p, "unassigned", "has_bot_comment_2", F)

\* the guard of the warn tier
WarnGuard(w, p, F) ==
    /\ ~has_bot_comment(w, p, "reminder", "has_bot_comment_1", F)
    /\ ~has_bot_comment(w, p, "stale warning", "has_bot_comment_2", F)

Locals(bot, p, login, lcr, days, tier, acted, ret, reassigned) ==
    [bot |-> bot, pr |-> p, login |-> login, lcr |-> lcr, days |-> days,
     tier |-> tier, acted |-> acted, ret |-> ret, reassigned |-> reassigned]

NoLocals == Locals("none", 0, "", None, 0, "none", FALSE, FALSE, <<>>)

\* the body of the loop of process_stale_prs for one pull request: the world
\* after it and the locals it ends with
ProcessPR(w, p, F) ==
    LET last_changes_requested == get_last_changes_requested(p, F)
        days_inactive == get_days_since_activity(w, p, last_changes_requested, F)
        tier == SelectTier(days_inactive)
        acts ==
            CASE tier = "close" -> TRUE
              [] tier = "unassign" -> UnassignGuard(w, p, F)
              [] tier = "warn" -> WarnGuard(w, p, F)
              [] OTHER -> FALSE
        out ==
            CASE tier = "close" -> close_stale_pr(w, p, days_inactive, F)
              [] tier = "unassign" /\ acts -> mark_pr_stale(w, p, days_inactive, F)
              [] tier = "warn" /\ acts -> send_stale_warning(w, p, days_inactive, F)
              [] OTHER -> [w |-> w, ret |-> FALSE]
    IN IF last_changes_requested = None
       THEN [w |-> w,
             locals |-> Locals("stale", p, prAuthor(p), None, 0, "skip", FALSE, FALSE, <<>>)]
       ELSE [w |-> out.w,
             locals |-> Locals("stale", p, prAuthor(p), last_changes_requested, days_inactive,
                               tier, acts, out.ret, <<>>)]

\* repo.get_pulls(state='all'), as a list
OpenPulls_AllStates == ListOf(PRs)

\* repo.get_pulls(state='open'), as a list
OpenPulls == ListOf({p \in PRs : prState[p] = "open"})

SetWorld(w) ==
    /\ prState' = w.prState
    /\ prLabels' = w.prLabels
    /\ prComments' = w.prComments
    /\ assignees' = w.assignees
    /\ issueComments' = w.issueComments

\* run() and the start of process_stale_prs: with the client initialized,
\* read the open pull requests; run() returns True then, whatever follows
StaleRunStart(initialized, F) ==
    /\ pc = "idle"
    /\ \A p \in PRs : prState[p] = "open" => Len(prComments[p]) < MaxComments
    /\ IF ~initialized \/ Call("get_pulls", 0) \in F
       THEN /\ pc' = "idle"
            /\ open_prs' = <<>>
       ELSE /\ pc' = "loop"
            /\ open_prs' = OpenPulls
    /\ last' = Locals("stale", 0, "", None, 0, "start", initialized, initialized, <<>>)
    /\ failed' = IF initialized THEN F ELSE {}
    /\ UNCHANGED <<now, reviews, commits, tracker, events>>

\* one iteration of the loop in which a call that raises ends the whole loop
StaleProcessPR_AbortOnFailure(F) ==
    /\ pc = "loop"
    /\ open_prs # <<>>
    /\ LET r == ProcessPR(World, Head(open_prs), F)
       IN /\ SetWorld(r.w)
          /\ last' = r.locals
    /\ open_prs' = IF F = {} THEN Tail(open_prs) ELSE <<>>
    /\ failed' = F
    /\ UNCHANGED <<now, reviews, commits, pc, events>>

\* one iteration of the loop of process_stale_prs
StaleProcessPR(F) ==
    /\ pc = "loop"
    /\ open_prs # <<>>
    /\ LET r == ProcessPR(World, Head(open_prs), F)
       IN /\ SetWorld(r.w)
          /\ last' = r.locals
    /\ open_prs' = Tail(open_prs)
    /\ failed' = F
    /\ UNCHANGED <<now, reviews, commits, pc, events>>

\* the end of the loop: process_stale_prs returns and run() returns True
StaleRunEnd ==
    /\ pc = "loop"
    /\ open_prs = <<>>
    /\ pc' = "idle"
    /\ last' = Locals("stale", 0, "", None, 0, "end", FALSE, TRUE, <<>>)
    /\ failed' = {}
    /\ UNCHANGED <<now, reviews, commits, tracker, open_prs, events>>

-----------------------------------------------------------------------------
(* PRReopenBot *)

\* issue.create_comment(body) by the bot's account
create_comment(w, n, body) ==
    [w EXCEPT !.issueComments[n] = Append(@, Comment(BotLogin, "Bot", body, now))]

RECURSIVE ReassignLoop_AlwaysWelcome(_, _, _, _, _, _)
\* the loop without the second test of pr_author against current_assignees
ReassignLoop_AlwaysWelcome(w, linked_issues, pr_number, pr_author, reassigned_issues, F) ==
    IF linked_issues = <<>> THEN [w |-> w, ret |-> reassigned_issues]
    ELSE LET issue_number == Head(linked_issues)
             rest == Tail(linked_issues)
             skip == ReassignLoop_AlwaysWelcome(w, rest, pr_number, pr_author,
                                                reassigned_issues, F)
         IN IF ~IssueFound(issue_number, F) \/ issue_number \in PRs THEN skip
            ELSE IF /\ w.assignees[issue_number] # {}
                    /\ pr_author \notin w.assignees[issue_number]
            THEN skip
            ELSE ReassignLoop_AlwaysWelcome(
                     [w EXCEPT !.assignees[issue_number] = @ \cup {pr_author},
                               !.issueComments[issue_number] =
                                   Append(@, Comment(BotLogin, "Bot",
                                                     "welcome_message", now))],
                     rest, pr_number, pr_author,
                     Append(reassigned_issues, issue_number), F)

RECURSIVE ReassignLoop_NoOthersCheck(_, _, _, _, _, _)
\* the loop without the test for an issue assigned to others
ReassignLoop_NoOthersCheck(w, linked_issues, pr_number, pr_author, reassigned_issues, F) ==
    IF linked_issues = <<>> THEN [w |-> w, ret |-> reassigned_issues]
    ELSE LET issue_number == Head(linked_issues)
             rest == Tail(linked_issues)
             skip == ReassignLoop_NoOthersCheck(w, rest, pr_number, pr_author,
                                                reassigned_issues, F)
         IN IF ~IssueFound(issue_number, F) \/ issue_number \in PRs THEN skip
            ELSE IF pr_author \in w.assignees[issue_number] THEN skip
            ELSE ReassignLoop_NoOthersCheck(
                     [w EXCEPT !.assignees[issue_number] = @ \cup {pr_author},
                               !.issueComments[issue_number] =
                                   Append(@, Comment(BotLogin, "Bot",
                                                     "welcome_message", now))],
                     rest, pr_number, pr_author,
                     Append(reassigned_issues, issue_number), F)

RECURSIVE ReassignLoop_AbortOnFailure(_, _, _, _, _, _)
\* the loop left at the first call that raises
ReassignLoop_AbortOnFailure(w, linked_issues, pr_number, pr_author, reassigned_issues, F) ==
    IF linked_issues = <<>> THEN [w |-> w, ret |-> reassigned_issues]
    ELSE LET issue_number == Head(linked_issues)
             rest == Tail(linked_issues)
             skip == ReassignLoop_AbortOnFailure(w, rest, pr_number, pr_author,
                                                 reassigned_issues, F)
             stop == [w |-> w, ret |-> reassigned_issues]
         IN IF ~IssueFound(issue_number, F) THEN stop
            ELSE IF issue_number \in PRs THEN skip
            ELSE IF w.assignees[issue_number] # {} THEN skip
            ELSE IF Call("add_to_assignees", issue_number) \in F THEN stop
            ELSE LET w1 == [w EXCEPT !.assignees[issue_number] = @ \cup {pr_author}]
                     added == Append(reassigned_issues, issue_number)
                 IN IF Call("create_comment", issue_number) \in F
                    THEN [w |-> w1, ret |-> added]
                    ELSE ReassignLoop_AbortOnFailure(
                             create_comment(w1, issue_number, "welcome_message"),
                             rest, pr_number, pr_author, added, F)

RECURSIVE ReassignLoop(_, _, _, _, _, _)
\* the loop of reassign_issues_to_author: [w, reassigned_issues] after the
\* issues left
ReassignLoop(w, linked_issues, pr_number, pr_author, reassigned_issues, F) ==
    IF linked_issues = <<>> THEN [w |-> w, ret |-> reassigned_issues]
    ELSE LET issue_number == Head(linked_issues)
             rest == Tail(linked_issues)
             skip == ReassignLoop(w, rest, pr_number, pr_author, reassigned_issues, F)
         IN IF ~IssueFound(issue_number, F) THEN skip
            ELSE IF issue_number \in PRs THEN skip
            ELSE LET current_assignees == w.assignees[issue_number]
                 IN IF current_assignees # {} /\ pr_author \notin current_assignees
                    THEN skip
                    ELSE IF pr_author \in current_assignees THEN skip
                    ELSE IF Call("add_to_assignees", issue_number) \in F THEN skip
                    ELSE LET w1 == [w EXCEPT !.assignees[issue_number] =
                                                 @ \cup {pr_author}]
                             added == Append(reassigned_issues, issue_number)
                         IN IF Call("create_comment", issue_number) \in F
                            THEN ReassignLoop(w1, rest, pr_number, pr_author, added, F)
                            ELSE ReassignLoop(
                                     create_comment(w1, issue_number, "welcome_message"),
                                     rest, pr_number, pr_author, added, F)

reassign_issues_to_author(w, pr_number, pr_author, pr_body, F) ==
    LET linked_issues == extract_linked_issues(pr_body)
    IN IF linked_issues = <<>> THEN [w |-> w, ret |-> <<>>]
       ELSE ReassignLoop(w, linked_issues, pr_number, pr_author, <<>>, F)

\* remove the "stale" label if present; False when absent or on any failure
remove_stale_label(w, pr_number, F) ==
    IF ~PullFound(pr_number, F) \/ Call("get_labels", pr_number) \in F
    THEN [w |-> w, ret |-> FALSE]
    ELSE IF "stale" \in w.prLabels[pr_number]
    THEN IF Call("remove_from_labels", pr_number) \in F
         THEN [w |-> w, ret |-> FALSE]
         ELSE [w |-> [w EXCEPT !.prLabels[pr_number] = @ \ {"stale"}], ret |-> TRUE]
    ELSE [w |-> w, ret |-> FALSE]

\* an event payload: number 0 and login "" stand for an absent field, and
\* NoPayload for a payload that was never loaded
Payload(number, login, body) == [number |-> number, login |-> login, body |-> body]
NoPayload == Payload(-1, "", <<>>)

\* handle_pr_reopen removing the label only after a reassignment
handle_pr_reopen_LabelIfReassigned(w, event_payload, F) ==
    IF event_payload = NoPayload THEN [w |-> w, ret |-> FALSE, reassigned |-> <<>>]
    ELSE LET pr_number == event_payload.number
             pr_author == event_payload.login
             pr_body == event_payload.body
         IN IF pr_number = 0 \/ pr_author = ""
            THEN [w |-> w, ret |-> FALSE, reassigned |-> <<>>]
            ELSE LET r == reassign_issues_to_author(w, pr_number, pr_author, pr_body, F)
                     w2 == IF r.ret = <<>> THEN r.w
                           ELSE remove_stale_label(r.w, pr_number, F).w
                 IN [w |-> w2, ret |-> Len(r.ret) > 0, reassigned |-> r.ret]

handle_pr_reopen(w, event_payload, F) ==
    IF event_payload = NoPayload THEN [w |-> w, ret |-> FALSE, reassigned |-> <<>>]
    ELSE LET pr_number == event_payload.number
             pr_author == event_payload.login
             pr_body == event_payload.body
         IN IF pr_number = 0 \/ pr_author = ""
            THEN [w |-> w, ret |-> FALSE, reassigned |-> <<>>]
            ELSE LET r == reassign_issues_to_author(w, pr_number, pr_author, pr_body, F)
                     w2 == remove_stale_label(r.w, pr_number, F).w
                 IN [w |-> w2, ret |-> Len(r.ret) > 0, reassigned |-> r.ret]

\* PRReopenBot.run without the test of the event type
ReopenRun_AnyEvent(w, initialized, event_name, event_payload, F) ==
    IF ~initialized THEN [w |-> w, ret |-> FALSE, reassigned |-> <<>>]
    ELSE handle_pr_reopen(w, event_payload, F)

\* PRReopenBot.run with the client initialized or not
ReopenRun(w, initialized, event_name, event_payload, F) ==
    IF ~initialized THEN [w |-> w, ret |-> FALSE, reassigned |-> <<>>]
    ELSE IF event_name = "pull_request_target"
    THEN handle_pr_reopen(w, event_payload, F)
    ELSE [w |-> w, ret |-> FALSE, reassigned |-> <<>>]

-----------------------------------------------------------------------------
(* PRActivityBot *)

RECURSIVE ActivityLoop_AssignAlways(_, _, _, _, _)
\* the loop with the commenter assigned whoever holds the issue
ActivityLoop_AssignAlways(w, linked_issues, commenter, reassigned_count, F) ==
    IF linked_issues = <<>> THEN [w |-> w, ret |-> reassigned_count]
    ELSE LET issue_number == Head(linked_issues)
             rest == Tail(linked_issues)
             skip == ActivityLoop_AssignAlways(w, rest, commenter, reassigned_count, F)
         IN IF ~IssueFound(issue_number, F) THEN skip
            ELSE IF issue_number \in PRs THEN skip
            ELSE IF Call("add_to_assignees", issue_number) \in F THEN skip
            ELSE ActivityLoop_AssignAlways(
                     [w EXCEPT !.assignees[issue_number] = @ \cup {commenter}],
                     rest, commenter, reassigned_count + 1, F)

RECURSIVE ActivityLoop(_, _, _, _, _)
\* the loop of handle_contributor_activity over the linked issues
ActivityLoop(w, linked_issues, commenter, reassigned_count, F) ==
    IF linked_issues = <<>> THEN [w |-> w, ret |-> reassigned_count]
    ELSE LET issue_number == Head(linked_issues)
             rest == Tail(linked_issues)
             skip == ActivityLoop(w, rest, commenter, reassigned_count, F)
         IN IF ~IssueFound(issue_number, F) THEN skip
            ELSE IF issue_number \in PRs THEN skip
            ELSE IF w.assignees[issue_number] = {}
            THEN IF Call("add_to_assignees", issue_number) \in F THEN skip
                 ELSE ActivityLoop(
                          [w EXCEPT !.assignees[issue_number] = @ \cup {commenter}],
                          rest, commenter, reassigned_count + 1, F)
            ELSE skip

\* handle_contributor_activity without the test for the "stale" label
handle_contributor_activity_NoStaleCheck(w, event_payload, F) ==
    IF event_payload = NoPayload THEN [w |-> w, ret |-> FALSE]
    ELSE LET pr_number == event_payload.number
             commenter == event_payload.login
         IN IF pr_number = 0 \/ commenter = "" THEN [w |-> w, ret |-> FALSE]
            ELSE IF ~PullFound(pr_number, F) THEN [w |-> w, ret |-> FALSE]
            ELSE IF commenter # prAuthor(pr_number) THEN [w |-> w, ret |-> FALSE]
            ELSE LET w1 == [w EXCEPT !.prLabels[pr_number] = @ \ {"stale"}]
                     w2 == ActivityLoop(w1, extract_linked_issues(prBody(pr_number)),
                                        commenter, 0, F).w
                 IN [w |-> [w2 EXCEPT !.prComments[pr_number] =
                                Append(@, Comment(BotLogin, "Bot",
                                                  "encouragement_message", now))],
                     ret |-> TRUE]

\* handle_contributor_activity with a failed label removal ending the handler
handle_contributor_activity_LabelFatal(w, event_payload, F) ==
    IF event_payload = NoPayload THEN [w |-> w, ret |-> FALSE]
    ELSE LET pr_number == event_payload.number
             commenter == event_payload.login
         IN IF pr_number = 0 \/ commenter = "" THEN [w |-> w, ret |-> FALSE]
            ELSE IF ~PullFound(pr_number, F) THEN [w |-> w, ret |-> FALSE]
            ELSE IF commenter # prAuthor(pr_number) THEN [w |-> w, ret |-> FALSE]
            ELSE IF Call("get_labels", pr_number) \in F THEN [w |-> w, ret |-> FALSE]
            ELSE IF "stale" \notin w.prLabels[pr_number] THEN [w |-> w, ret |-> FALSE]
            ELSE IF Call("remove_from_labels", pr_number) \in F
            THEN [w |-> w, ret |-> FALSE]
            ELSE LET w1 == [w EXCEPT !.prLabels[pr_number] = @ \ {"stale"}]
                     w2 == ActivityLoop(w1, extract_linked_issues(prBody(pr_number)),
                                        commenter, 0, F).w
                 IN IF Call("create_issue_comment", pr_number) \in F
                    THEN [w |-> w2, ret |-> FALSE]
                    ELSE [w |-> create_issue_comment(w2, pr_number,
                                                     "encouragement_message"),
                          ret |-> TRUE]

handle_contributor_activity(w, event_payload, F) ==
    IF event_payload = NoPayload THEN [w |-> w, ret |-> FALSE]
    ELSE LET pr_number == event_payload.number
             commenter == event_payload.login
         IN IF pr_number = 0 \/ commenter = "" THEN [w |-> w, ret |-> FALSE]
            ELSE IF ~PullFound(pr_number, F) THEN [w |-> w, ret |-> FALSE]
            ELSE IF commenter # prAuthor(pr_number) THEN [w |-> w, ret |-> FALSE]
            ELSE IF Call("get_labels", pr_number) \in F THEN [w |-> w, ret |-> FALSE]
            ELSE IF "stale" \notin w.prLabels[pr_number] THEN [w |-> w, ret |-> FALSE]
            ELSE LET w1 == IF Call("remove_from_labels", pr_number) \in F THEN w
                           ELSE [w EXCEPT !.prLabels[pr_number] = @ \ {"stale"}]
                     w2 == ActivityLoop(w1, extract_linked_issues(prBody(pr_number)),
                                        commenter, 0, F).w
                 IN IF Call("create_issue_comment", pr_number) \in F
                    THEN [w |-> w2, ret |-> FALSE]
                    ELSE [w |-> create_issue_comment(w2, pr_number,
                                                     "encouragement_message"),
                          ret |-> TRUE]

\* PRActivityBot.run with the client initialized or not
ActivityRun(w, initialized, event_name, event_payload, F) ==
    IF ~initialized THEN [w |-> w, ret |-> FALSE]
    ELSE IF event_name = "issue_comment"
    THEN handle_contributor_activity(w, event_payload, F)
    ELSE [w |-> w, ret |-> FALSE]

\* the event types the dispatcher starts the two bots with
EventNames == {"pull_request_target", "issue_comment"}

\* payloads of pull_request_target events: of a pull request of the
\* repository, whole or with a field absent
ReopenPayloads ==
    {NoPayload}
    \cup {Payload(p, prAuthor(p), prBody(p)) : p \in PRs}
    \cup {Payload(0, prAuthor(1), prBody(1)), Payload(1, "", prBody(1)),
          Payload(2, prAuthor(2), <<>>)}

\* payloads of issue_comment events: a user's comment on a pull request or
\* on an issue, whole or with a field absent
ActivityPayloads ==
    {NoPayload}
    \cup {Payload(n, u, <<>>) : n \in PRs \cup {3}, u \in Users}
    \cup {Payload(0, "alice", <<>>), Payload(1, "", <<>>)}

\* one run of the Reopen Bot
ReopenBotRun(initialized, event_name, event_payload, F) ==
    /\ pc = "idle"
    /\ \A n \in Issues : Len(issueComments[n]) < MaxIssueComments
    /\ LET r == ReopenRun(World, initialized, event_name, event_payload, F)
       IN /\ SetWorld(r.w)
          /\ last' = Locals("reopen", event_payload.number, event_payload.login,
                            None, 0, event_name, initialized, r.ret, r.reassigned)
    /\ failed' = F
    /\ UNCHANGED <<now, reviews, commits, pc, open_prs, events>>

\* one run of the Activity Bot
ActivityBotRun(initialized, event_name, event_payload, F) ==
    /\ pc = "idle"
    /\ \A p \in PRs : Len(prComments[p]) < MaxComments
    /\ LET r == ActivityRun(World, initialized, event_name, event_payload, F)
       IN /\ SetWorld(r.w)
          /\ last' = Locals("activity", event_payload.number, event_payload.login,
                            None, 0, event_name, initialized, r.ret, <<>>)
    /\ failed' = F
    /\ UNCHANGED <<now, reviews, commits, pc, open_prs, events>>

-----------------------------------------------------------------------------
(* The tracker's other users: time, reviewers, authors *)

Review(state, t) == [state |-> state, submitted_at |-> t]
Commit(login, t) == [login |-> login, date |-> t]

\* time passes to a later observed instant
Tick ==
    /\ pc = "idle"
    /\ \E t \in Instants : t > now /\ now' = t
    /\ last' = NoLocals
    /\ failed' = {}
    /\ UNCHANGED <<reviews, commits, tracker, pc, open_prs, events>>

\* a reviewer submits a review of p
SubmitReview(p, state) ==
    /\ pc = "idle"
    /\ prState[p] = "open"
    /\ events < MaxEvents
    /\ events' = events + 1
    /\ reviews' = [reviews EXCEPT ![p] = Append(@, Review(state, now))]
    /\ last' = NoLocals
    /\ failed' = {}
    /\ UNCHANGED <<now, commits, tracker, pc, open_prs>>

\* a commit by login ("" for a commit of no GitHub account) reaches p's head
PushCommit(p, login) ==
    /\ pc = "idle"
    /\ prState[p] = "open"
    /\ events < MaxEvents
    /\ events' = events + 1
    /\ commits' = [commits EXCEPT ![p] = Append(@, Commit(login, now))]
    /\ last' = NoLocals
    /\ failed' = {}
    /\ UNCHANGED <<now, reviews, tracker, pc, open_prs>>

\* user u comments on p
UserComment(p, u) ==
    /\ pc = "idle"
    /\ events < MaxEvents
    /\ events' = events + 1
    /\ prComments' = [prComments EXCEPT ![p] =
                          Append(@, Comment(u, "User", "user_text", now))]
    /\ last' = NoLocals
    /\ failed' = {}
    /\ UNCHANGED <<now, reviews, commits, prState, prLabels, assignees,
                   issueComments, pc, open_prs>>

\* the author reopens the closed pull request p
ReopenPR(p) ==
    /\ pc = "idle"
    /\ prState[p] = "closed"
    /\ events < MaxEvents
    /\ events' = events + 1
    /\ prState' = [prState EXCEPT ![p] = "open"]
    /\ last' = NoLocals
    /\ failed' = {}
    /\ UNCHANGED <<now, reviews, commits, prLabels, prComments, assignees,
                   issueComments, pc, open_prs>>

-----------------------------------------------------------------------------
(* Specification: the three bots and the tracker's users, every remote     *)
(* call answered.  Pull request 1 is the one its author and its reviewers  *)
(* act on; pull request 2 is reviewed once, at the start.  The authors     *)
(* start as assignees of the issues their pull requests link.              *)

ActivePRs == {1}

Init ==
    /\ now = 0
    /\ prState = [p \in PRs |-> "open"]
    /\ prLabels = [p \in PRs |-> {}]
    /\ \E r \in {"APPROVED", "CHANGES_REQUESTED"} :
           reviews = [p \in PRs |-> IF p \in ActivePRs THEN <<>> ELSE <<Review(r, 0)>>]
    /\ commits = [p \in PRs |-> <<>>]
    /\ prComments = [p \in PRs |-> <<>>]
    /\ \E a \in {{"alice"}, {"alice", "bob"}} :
           assignees = [n \in Issues |-> IF n = 3 THEN a ELSE {"bob"}]
    /\ issueComments = [n \in Issues |-> <<>>]
    /\ pc = "idle"
    /\ open_prs = <<>>
    /\ last = NoLocals
    /\ events = 0
    /\ failed = {}

Next ==
    \/ Tick
    \/ \E p \in ActivePRs, state \in {"CHANGES_REQUESTED", "APPROVED"} :
           SubmitReview(p, state)
    \/ \E p \in ActivePRs : PushCommit(p, prAuthor(p))
    \/ \E p \in ActivePRs : UserComment(p, prAuthor(p))
    \/ \E p \in PRs : ReopenPR(p)
    \/ StaleRunStart(TRUE, {})
    \/ StaleProcessPR({})
    \/ StaleRunEnd
    \/ \E event_payload \in {Payload(p, prAuthor(p), prBody(p)) : p \in PRs} :
           ReopenBotRun(TRUE, "pull_request_target", event_payload, {})
    \/ \E event_payload \in {Payload(p, prAuthor(p), <<>>) : p \in PRs} :
           ActivityBotRun(TRUE, "issue_comment", event_payload, {})

Spec == Init /\ [][Next]_vars

-----------------------------------------------------------------------------
(* Specification of the event handlers: the Reopen Bot and the Activity    *)
(* Bot started with every event type and payload, against every assignment *)
(* of the issues and with and without the "stale" label                    *)

InitEvents ==
    /\ now = 0
    /\ prState = [p \in PRs |-> "open"]
    /\ prLabels \in [PRs -> {{}, {"stale"}}]
    /\ reviews = [p \in PRs |-> <<>>]
    /\ commits = [p \in PRs |-> <<>>]
    /\ prComments = [p \in PRs |-> <<>>]
    /\ assignees \in [Issues -> SUBSET Users]
    /\ issueComments = [n \in Issues |-> <<>>]
    /\ pc = "idle"
    /\ open_prs = <<>>
    /\ last = NoLocals
    /\ events = 0
    /\ failed = {}

NextEvents ==
    \/ \E initialized \in BOOLEAN, event_name \in EventNames, payload \in ReopenPayloads :
           ReopenBotRun(initialized, event_name, payload, {})
    \/ \E initialized \in BOOLEAN, event_name \in EventNames, payload \in ActivityPayloads :
           ActivityBotRun(initialized, event_name, payload, {})

SpecEvents == InitEvents /\ [][NextEvents]_vars

-----------------------------------------------------------------------------
(* Specification of the inactivity computation: one run of the Stale-PR    *)
(* Bot over pull request 1 with every short history of reviews, commits    *)
(* and comments                                                            *)

\* the commits one drawn history holds at most
MaxCommits == 2

ReviewHistories ==
    LET R == {Review(st, t) : st \in {"CHANGES_REQUESTED", "APPROVED"}, t \in {1, 2}}
    IN {<<>>} \cup {<<a>> : a \in R} \cup {<<a, b>> : a \in R, b \in R}

CommitHistories ==
    SeqsUpTo({Commit(u, t) : u \in Users \cup {""}, t \in {2, 3}}, MaxCommits)

CommentHistories ==
    LET C == {Comment(u, "User", "user_text", t) : u \in Users, t \in {2, 3}}
    IN {<<>>} \cup {<<a>> : a \in C} \cup {<<a, b>> : a \in C, b \in C}

InitDays ==
    /\ now \in {2 + d * TicksPerDay : d \in MarkDays}
    /\ prState = [p \in PRs |-> IF p = 1 THEN "open" ELSE "closed"]
    /\ prLabels = [p \in PRs |-> {}]
    /\ \E h \in ReviewHistories :
           /\ \A i \in 1..Len(h) : h[i].submitted_at <= now
           /\ reviews = [p \in PRs |-> IF p = 1 THEN h ELSE <<>>]
    /\ \E h \in CommitHistories :
           commits = [p \in PRs |-> IF p = 1 THEN h ELSE <<>>]
    /\ \E h \in CommentHistories :
           /\ \A i \in 1..Len(h) : h[i].created_at <= now
           /\ prComments = [p \in PRs |-> IF p = 1 THEN h ELSE <<>>]
    /\ assignees = [n \in Issues |-> Users]
    /\ issueComments = [n \in Issues |-> <<>>]
    /\ pc = "idle"
    /\ open_prs = <<>>
    /\ last = NoLocals
    /\ events = 0
    /\ failed = {}

NextDays ==
    \/ StaleRunStart(TRUE, {})
    \/ StaleProcessPR({})
    \/ StaleRunEnd

SpecDays == InitDays /\ [][NextDays]_vars

-----------------------------------------------------------------------------
(* Specification of the event handlers with failing remote calls: the      *)
(* Reopen Bot and the Activity Bot run for the pull requests' own events,  *)
(* and in each run a set of the remote calls the handlers make raises      *)

\* the remote calls the two event handlers make
EventCalls ==
    {Call(c, p) : c \in {"get_pull", "get_labels", "remove_from_labels",
                         "create_issue_comment"}, p \in PRs}
    \cup {Call(c, n) : c \in {"get_issue", "add_to_assignees", "create_comment"},
                        n \in Issues}

EventFaultSets == SetsUpTo(EventCalls, MaxFaults)

\* both pull requests stale or neither; each issue free or held by one user
InitEventFaults ==
    /\ now = 0
    /\ prState = [p \in PRs |-> "open"]
    /\ prLabels \in {[p \in PRs |-> {}], [p \in PRs |-> {"stale"}]}
    /\ reviews = [p \in PRs |-> <<>>]
    /\ commits = [p \in PRs |-> <<>>]
    /\ prComments = [p \in PRs |-> <<>>]
    /\ assignees \in [Issues -> {{}, {"alice"}, {"bob"}}]
    /\ issueComments = [n \in Issues |-> <<>>]
    /\ pc = "idle"
    /\ open_prs = <<>>
    /\ last = NoLocals
    /\ events = 0
    /\ failed = {}

NextEventFaults ==
    \/ \E event_payload \in {Payload(p, prAuthor(p), prBody(p)) : p \in PRs} :
           \E F \in EventFaultSets :
               ReopenBotRun(TRUE, "pull_request_target", event_payload, F)
    \/ \E event_payload \in {Payload(p, prAuthor(p), <<>>) : p \in PRs} :
           \E F \in EventFaultSets :
               ActivityBotRun(TRUE, "issue_comment", event_payload, F)
    \/ \E event_payload \in {Payload(0, prAuthor(1), prBody(1)),
                             Payload(1, "", prBody(1))} :
           ReopenBotRun(TRUE, "pull_request_target", event_payload, {})

SpecEventFaults == InitEventFaults /\ [][NextEventFaults]_vars

-----------------------------------------------------------------------------
(* Specification of the starts of the three bots: each run() with the      *)
(* client initialized or not, with every event type and payload, at a time *)
(* when both pull requests have gone sixty days since a review that        *)
(* requested changes                                                       *)

InitStart ==
    /\ now = DAYS_BEFORE_CLOSE * TicksPerDay
    /\ prState = [p \in PRs |-> "open"]
    /\ prLabels \in {[p \in PRs |-> {}], [p \in PRs |-> {"stale"}]}
    /\ reviews = [p \in PRs |-> <<Review("CHANGES_REQUESTED", 0)>>]
    /\ commits = [p \in PRs |-> <<>>]
    /\ prComments = [p \in PRs |-> <<>>]
    /\ assignees \in [Issues -> {{}, {"alice"}, {"bob"}}]
    /\ issueComments = [n \in Issues |-> <<>>]
    /\ pc = "idle"
    /\ open_prs = <<>>
    /\ last = NoLocals
    /\ events = 0
    /\ failed = {}

NextStart ==
    \/ \E initialized \in BOOLEAN : StaleRunStart(initialized, {})
    \/ StaleProcessPR({})
    \/ StaleRunEnd
    \/ NextEvents

SpecStart == InitStart /\ [][NextStart]_vars

-----------------------------------------------------------------------------
(* Specification of the batch: runs of the Stale-PR Bot over two pull      *)
(* requests whose changes were requested at the start, on the day a        *)
(* threshold is reached, with remote calls that raise; a run that has      *)
(* started goes on: the loop takes the next element of its list while one  *)
(* is left, and returns when none is                                       *)

\* the remote calls one iteration of process_stale_prs can make for p
StaleCallsOf(p) ==
    {Call(c, p) : c \in {"get_reviews", "get_commits", "get_issue_comments",
                         "has_bot_comment_1", "has_bot_comment_2",
                         "create_issue_comment", "edit", "add_to_labels"}}
    \cup {Call(c, n) : c \in {"get_issue", "remove_from_assignees"}, n \in Issues}

\* the start of a run whose listing of the open pull requests may raise
StaleStartFaulty ==
    \E F \in SetsUpTo({Call("get_pulls", 0)}, MaxFaults) : StaleRunStart(TRUE, F)

\* one iteration in which calls made for the pull request at hand may raise
StaleIterationFaulty ==
    \E p \in PRs : \E F \in SetsUpTo(StaleCallsOf(p), MaxFaults) :
        /\ pc = "loop"
        /\ open_prs # <<>>
        /\ Head(open_prs) = p
        /\ failed' = F
        /\ StaleProcessPR(F)

InitBatch ==
    /\ now \in {d * TicksPerDay : d \in MarkDays}
    /\ prState = [p \in PRs |-> "open"]
    /\ prLabels = [p \in PRs |-> {}]
    /\ reviews = [p \in PRs |-> <<Review("CHANGES_REQUESTED", 0)>>]
    /\ commits = [p \in PRs |-> <<>>]
    /\ prComments = [p \in PRs |-> <<>>]
    /\ \E a \in {{"alice"}, {"alice", "bob"}} :
           assignees = [n \in Issues |-> IF n = 3 THEN a ELSE {"bob"}]
    /\ issueComments = [n \in Issues |-> <<>>]
    /\ pc = "idle"
    /\ open_prs = <<>>
    /\ last = NoLocals
    /\ events = 0
    /\ failed = {}

NextBatch ==
    \/ StaleStartFaulty
    \/ StaleIterationFaulty
    \/ StaleRunEnd

\* the for loop moves on to the next element of the list it iterates over
LoopAdvances ==
    /\ pc = "loop"
    /\ open_prs # <<>>
    /\ open_prs' = Tail(open_prs)

SpecBatch ==
    /\ InitBatch
    /\ [][NextBatch]_vars
    /\ WF_open_prs(LoopAdvances)
    /\ WF_vars(StaleRunEnd)

-----------------------------------------------------------------------------
(* Specification of the linked-issue extractor: extract_linked_issues      *)
(* applied to every short body over a vocabulary of words and references   *)

\* the tokens one drawn body holds at most
MaxBody == 3

\* keywords in several letter cases, a past form the pattern lacks, words
\* that end in a keyword, a word that holds none, and references
BodyTokens ==
    {Word(w) : w \in {"fix", "Fixes", "Closed", "fixed", "hotfix", "see"}}
    \cup {Ref(n) : n \in {3, 4}}

\* the bodies drawn: <<>> is the empty and the absent body
Bodies == SeqsUpTo(BodyTokens, MaxBody)

\* the locals of one call of the extractor
ExtractLocals(pr_body, ret) == [bot |-> "extract", pr_body |-> pr_body, ret |-> ret]

\* one call of extract_linked_issues
Extract(pr_body) ==
    /\ pc = "idle"
    /\ last' = ExtractLocals(pr_body, extract_linked_issues(pr_body))
    /\ failed' = {}
    /\ UNCHANGED <<now, reviews, commits, tracker, pc, open_prs, events>>

NextExtract == \E pr_body \in Bodies : Extract(pr_body)

SpecExtract == InitEvents /\ [][NextExtract]_vars

-----------------------------------------------------------------------------
(* Specification of the unassignment: unassign_linked_issues applied for   *)
(* a pull request of either user with every short body over a vocabulary   *)
(* of words and references, against every assignment of the issues         *)

\* the tokens one drawn body holds at most
UnassignTokens ==
    {Word(w) : w \in {"Fixes", "hotfix", "see"}} \cup {Ref(n) : n \in Issues}

UnassignBodies == SeqsUpTo(UnassignTokens, MaxBody)

\* the locals of one call of unassign_linked_issues
UnassignLocals(pr_body, pr_author, ret) ==
    [bot |-> "unassign", pr_body |-> pr_body, login |-> pr_author, ret |-> ret]

\* one call of unassign_linked_issues for a pull request with this body and author
Unassign(pr_body, pr_author) ==
    /\ pc = "idle"
    /\ LET r == UnassignLoop(World, extract_linked_issues(pr_body), pr_author, 0, {})
       IN /\ SetWorld(r.w)
          /\ last' = UnassignLocals(pr_body, pr_author, r.ret)
    /\ failed' = {}
    /\ UNCHANGED <<now, reviews, commits, pc, open_prs, events>>

InitUnassign ==
    /\ now = 0
    /\ prState = [p \in PRs |-> "open"]
    /\ prLabels = [p \in PRs |-> {}]
    /\ reviews = [p \in PRs |-> <<>>]
    /\ commits = [p \in PRs |-> <<>>]
    /\ prComments = [p \in PRs |-> <<>>]
    /\ assignees \in [Issues -> SUBSET Users]
    /\ issueComments = [n \in Issues |-> <<>>]
    /\ pc = "idle"
    /\ open_prs = <<>>
    /\ last = NoLocals
    /\ events = 0
    /\ failed = {}

NextUnassign == \E pr_body \in UnassignBodies, pr_author \in Users : Unassign(pr_body, pr_author)

SpecUnassign == InitUnassign /\ [][NextUnassign]_vars

-----------------------------------------------------------------------------
(* Vocabulary of the properties *)

\* the step taken is one iteration of process_stale_prs, for ThePR
StaleStep == pc = "loop" /\ open_prs # <<>>
ThePR == Head(open_prs)

\* the step taken belongs to a run of the Stale-PR Bot
StaleBotStep == pc = "loop" \/ pc' = "loop"

\* how many comments of cs the bot's account posted with this text
CountOf(cs, body) ==
    Cardinality({i \in 1..Len(cs) : cs[i].login = BotLogin /\ cs[i].body = body})

\* the comments of p are unchanged, or grew by one comment of the bot with this text
PostedAtMost(p, body) ==
    \/ prComments'[p] = prComments[p]
    \/ prComments'[p] = Append(prComments[p], Comment(BotLogin, "Bot", body, now))

Posted(p, body) ==
    prComments'[p] = Append(prComments[p], Comment(BotLogin, "Bot", body, now))

\* the issues (not pull requests) a closing keyword of p's body refers to
LinkedIssuesOf(p) ==
    {n \in Issues : \E i \in 1..(Len(prBody(p)) - 1) :
        /\ Lower(prBody(p)[i].word) \in Keywords
        /\ prBody(p)[i + 1] = Ref(n)}

\* p has a review that requests changes
HasChangesRequested(p) ==
    \E i \in 1..Len(reviews[p]) : reviews[p][i].state = "CHANGES_REQUESTED"

\* nothing of any pull request but p changes
OthersUntouched(p) ==
    \A q \in PRs \ {p} :
        /\ prState'[q] = prState[q]
        /\ prLabels'[q] = prLabels[q]
        /\ prComments'[q] = prComments[q]

-----------------------------------------------------------------------------
(* Properties *)

\* C1: in one iteration of process_stale_prs over a pull request with a
\* changes-requested review, only the highest tier whose threshold the
\* computed days_inactive meets acts: from 60 days only the close tier (the
\* closing message, no label); from 14 to 59 days only the unassign tier (at
\* most the stale notice, never a warning, the pull request stays open); from
\* 7 to 13 days only the warn tier (at most the warning; no label, state or
\* assignee changes); under 7 days nothing changes at all.
C1_TierSelection ==
    [][(StaleStep /\ last'.tier # "skip") =>
        LET p == ThePR
            d == last'.days
        IN /\ OthersUntouched(p)
           /\ d >= DAYS_BEFORE_CLOSE =>
                  /\ Posted(p, "close_message")
                  /\ prLabels' = prLabels
           /\ (d >= DAYS_BEFORE_UNASSIGN /\ d < DAYS_BEFORE_CLOSE) =>
                  /\ PostedAtMost(p, "unassign_message")
                  /\ prState' = prState
           /\ (d >= DAYS_BEFORE_STALE_WARNING /\ d < DAYS_BEFORE_UNASSIGN) =>
                  /\ PostedAtMost(p, "warning_message")
                  /\ UNCHANGED <<prState, prLabels, assignees, issueComments>>
           /\ d < DAYS_BEFORE_STALE_WARNING => UNCHANGED tracker
      ]_vars

\* C1 witness: an iteration in the unassign band whose guard suppressed it
C1_Witness ==
    /\ last.bot = "stale" /\ last.tier = "unassign" /\ ~last.acted
    /\ last.days >= DAYS_BEFORE_UNASSIGN /\ last.days < DAYS_BEFORE_CLOSE

\* C2 (as claimed): a pull request whose only bot comment is the 7-day warning
\* is, by an iteration that finds 14 <= days_inactive < 60, marked stale: the
\* notice posted, the "stale" label added, its author unassigned from its
\* linked issues.
C2_WarnThenStale ==
    [][(/\ StaleStep
        /\ last'.tier # "skip"
        /\ last'.days >= DAYS_BEFORE_UNASSIGN /\ last'.days < DAYS_BEFORE_CLOSE
        /\ CountOf(prComments[ThePR], "warning_message") = 1
        /\ \A i \in 1..Len(prComments[ThePR]) :
               prComments[ThePR][i].type = "Bot" =>
                   prComments[ThePR][i].body = "warning_message")
       => /\ Posted(ThePR, "unassign_message")
          /\ "stale" \in prLabels'[ThePR]
          /\ \A n \in LinkedIssuesOf(ThePR) : prAuthor(ThePR) \notin assignees'[n]
      ]_vars

\* C3: no pull request ever holds more than one warning or more than one
\* stale notice of the bot, and an iteration in the warn tier of a pull
\* request already warned, or in the unassign tier of one already given the
\* notice, changes nothing.
C3_Idempotent ==
    [][/\ \A p \in PRs :
              /\ CountOf(prComments'[p], "warning_message") <= 1
              /\ CountOf(prComments'[p], "unassign_message") <= 1
       /\ (/\ StaleStep
           /\ \/ /\ last'.tier = "warn"
                 /\ CountOf(prComments[ThePR], "warning_message") > 0
              \/ /\ last'.tier = "unassign"
                 /\ CountOf(prComments[ThePR], "unassign_message") > 0)
          => UNCHANGED tracker
      ]_vars

\* C3 witness: a second iteration in the unassign tier, after the notice
C3_Witness ==
    /\ last.bot = "stale" /\ last.tier = "unassign" /\ ~last.acted
    /\ CountOf(prComments[last.pr], "unassign_message") = 1

\* C4: an iteration over a pull request with no changes-requested review
\* changes nothing in the tracker.
C4_NoReviewNoAction ==
    [][(StaleStep /\ ~HasChangesRequested(ThePR)) => UNCHANGED tracker]_vars

\* C4 witness: sixty days on, a pull request with comments and commits but no
\* changes-requested review was passed over
C4_Witness ==
    /\ last.bot = "stale" /\ last.tier = "skip" /\ last.pr = 1
    /\ ~HasChangesRequested(1)
    /\ prComments[1] # <<>> /\ commits[1] # <<>>
    /\ now >= DAYS_BEFORE_CLOSE * TicksPerDay

\* C5: an iteration that finds days_inactive >= 60 posts the closing message,
\* closes the pull request and leaves its author assigned to none of its
\* linked issues, whatever comments the pull request already holds.
C5_CloseTier ==
    [][(StaleStep /\ last'.tier # "skip" /\ last'.days >= DAYS_BEFORE_CLOSE) =>
        /\ Posted(ThePR, "close_message")
        /\ prState'[ThePR] = "closed"
        /\ \A n \in LinkedIssuesOf(ThePR) : assignees'[n] = assignees[n] \ {prAuthor(ThePR)}
      ]_vars

\* C5 witness: pull request 2, already warned, was closed and its author is
\* off the issues it links
C5_Witness ==
    /\ last.bot = "stale" /\ last.tier = "close" /\ last.ret /\ last.pr = 2
    /\ CountOf(prComments[2], "warning_message") = 1
    /\ prState[2] = "closed"
    /\ assignees[3] = {"alice"} /\ assignees[4] = {}

\* C6: the Stale-PR Bot iterates only over pull requests that are open, and
\* no step of one of its runs changes the comments or labels of a closed one.
C6_ClosedStaysUntouched ==
    [][/\ StaleStep => prState[ThePR] = "open"
       /\ StaleBotStep =>
              \A p \in PRs : prState[p] = "closed" =>
                  /\ prComments'[p] = prComments[p]
                  /\ prLabels'[p] = prLabels[p]
                  /\ prState'[p] = "closed"
      ]_vars

\* C6 witness: a run that started after the bot closed a pull request, and
\* does not list it
C6_Witness ==
    /\ last.bot = "stale" /\ last.tier = "start" /\ last.acted
    /\ \E p \in PRs :
           /\ prState[p] = "closed"
           /\ CountOf(prComments[p], "close_message") = 1
           /\ \A i \in 1..Len(open_prs) : open_prs[i] # p


\* the latest changes-requested review of p
MostRecentChangesRequested(p) ==
    CHOOSE t \in {reviews[p][i].submitted_at : i \in 1..Len(reviews[p])} :
        /\ \E i \in 1..Len(reviews[p]) :
               /\ reviews[p][i].state = "CHANGES_REQUESTED"
               /\ reviews[p][i].submitted_at = t
        /\ \A i \in 1..Len(reviews[p]) :
               reviews[p][i].state = "CHANGES_REQUESTED" => reviews[p][i].submitted_at <= t

\* the timestamps of the author's commits and comments strictly after t
AuthorActivityAfter(p, t) ==
    {commits[p][i].date : i \in {j \in 1..Len(commits[p]) :
        commits[p][j].login = prAuthor(p) /\ commits[p][j].date > t}}
    \cup
    {prComments[p][i].created_at : i \in {j \in 1..Len(prComments[p]) :
        prComments[p][j].login = prAuthor(p) /\ prComments[p][j].created_at > t}}

\* the reference point of the inactivity of p
ReferencePoint(p) ==
    LET t == MostRecentChangesRequested(p)
        A == AuthorActivityAfter(p, t)
    IN IF A = {} THEN t ELSE CHOOSE a \in A : \A b \in A : b <= a

\* C7: the days_inactive an iteration computes is the number d of whole days
\* from the reference point to now (d days have passed, d + 1 have not), the
\* reference point being the latest commit or comment of the author strictly
\* after the most recent changes-requested review, or that review when there
\* is none; the review date it uses is the most recent one.
C7_InactivityReference ==
    [][(StaleStep /\ HasChangesRequested(ThePR)) =>
        /\ last'.lcr = MostRecentChangesRequested(ThePR)
        /\ last'.days * TicksPerDay <= now - ReferencePoint(ThePR)
        /\ now - ReferencePoint(ThePR) < (last'.days + 1) * TicksPerDay
      ]_vars

\* C7 witness: days were counted from the author's comment at 3, with a
\* review at 2, a commit of the author at 2 and a later commit of another user
C7_Witness ==
    /\ last.bot = "stale" /\ last.pr = 1 /\ last.lcr = 2
    /\ last.days = DAYS_BEFORE_STALE_WARNING - 1
    /\ now = 2 + DAYS_BEFORE_STALE_WARNING * TicksPerDay
    /\ \E i \in 1..Len(commits[1]) : commits[1][i] = Commit("alice", 2)
    /\ \E i \in 1..Len(commits[1]) : commits[1][i] = Commit("bob", 3)
    /\ \E i \in 1..Len(prComments[1]) :
           prComments[1][i] = Comment("alice", "User", "user_text", 3)

\* the step taken is a run of the Reopen Bot that reaches
\* reassign_issues_to_author for pull request p
ReopenStep(p, body) ==
    ReopenBotRun(TRUE, "pull_request_target", Payload(p, prAuthor(p), body), {})

\* the issues (not pull requests) a closing keyword of the body refers to
LinkedIssuesIn(body) ==
    {n \in Issues : \E i \in 1..(Len(body) - 1) :
        Lower(body[i].word) \in Keywords /\ body[i + 1] = Ref(n)}

\* the set of the numbers in a list, and whether the list repeats none
Range(seq) == {seq[i] : i \in 1..Len(seq)}
NoRepeats(seq) == Cardinality(Range(seq)) = Len(seq)

\* issue n got exactly one welcome comment, or none, in this step
Welcomed(n) ==
    issueComments'[n] =
        Append(issueComments[n], Comment(BotLogin, "Bot", "welcome_message", now))
NotWelcomed(n) == issueComments'[n] = issueComments[n]

\* C8 (as claimed): every linked issue with no assignee other than the author
\* gets the author as assignee and one welcome comment, and the returned list
\* holds exactly those issues.
C8_ReassignAsClaimed ==
    [][\A p \in PRs : \A body \in {prBody(p), <<>>} : ReopenStep(p, body) =>
        LET eligible == {n \in LinkedIssuesIn(body) : assignees[n] \subseteq {prAuthor(p)}}
        IN /\ \A n \in eligible : prAuthor(p) \in assignees'[n] /\ Welcomed(n)
           /\ Range(last'.reassigned) = eligible
      ]_vars

\* C8 (amended): every linked issue with no assignee at all gets the author
\* as assignee and exactly one welcome comment; every other issue, one already
\* assigned to the author included, keeps its assignees and gets no comment;
\* the returned list holds the issues so reassigned, each once.
C8_Reassign ==
    [][\A p \in PRs : \A body \in {prBody(p), <<>>} : ReopenStep(p, body) =>
        LET eligible == {n \in LinkedIssuesIn(body) : assignees[n] = {}}
        IN /\ \A n \in eligible : assignees'[n] = {prAuthor(p)} /\ Welcomed(n)
           /\ \A n \in Issues \ eligible :
                  assignees'[n] = assignees[n] /\ NotWelcomed(n)
           /\ Range(last'.reassigned) = eligible
           /\ NoRepeats(last'.reassigned)
      ]_vars

\* C8 witness: the Reopen Bot reassigned issue 3 to the author of pull
\* request 1 and welcomed her there once
C8_Witness ==
    /\ last.bot = "reopen" /\ last.pr = 1 /\ last.ret
    /\ last.reassigned = <<3>>
    /\ assignees[3] = {"alice"}
    /\ CountOf(issueComments[3], "welcome_message") = 1

\* C9: a run of the Reopen Bot or of the Activity Bot leaves every issue
\* that has an assignee, and not the payload's user alone, as it is: same
\* assignees, same comments, not in the returned list; and the Activity Bot
\* changes the assignees only of issues that had none.
C9_AssignedToOthers ==
    [][last'.bot \in {"reopen", "activity"} =>
        \A n \in Issues :
            /\ (assignees[n] # {} /\ assignees[n] # {last'.login}) =>
                   /\ assignees'[n] = assignees[n]
                   /\ issueComments'[n] = issueComments[n]
                   /\ n \notin Range(last'.reassigned)
            /\ (last'.bot = "activity" /\ assignees'[n] # assignees[n]) =>
                   assignees[n] = {}
      ]_vars

\* C9 witness: the Reopen Bot ran for pull request 1 while issue 3 was
\* assigned to another user, and returned nothing
C9_Witness ==
    /\ last.bot = "reopen" /\ last.pr = 1 /\ last.login = "alice"
    /\ last.tier = "pull_request_target" /\ last.acted
    /\ assignees[3] = {"bob"}
    /\ issueComments[3] = <<>>
    /\ last.reassigned = <<>>

\* C10: a run of the Activity Bot for a comment on a pull request by someone
\* who is not its author, or on a pull request without the "stale" label,
\* returns false and changes nothing in the tracker.
C10_ActivityGuard ==
    [][(/\ last'.bot = "activity"
        /\ last'.pr \in PRs
        /\ \/ last'.login # prAuthor(last'.pr)
           \/ "stale" \notin prLabels[last'.pr])
       => (~last'.ret /\ UNCHANGED tracker)
      ]_vars

\* C10 witness: the Activity Bot ran for a comment of another user on the
\* stale pull request 1, whose linked issue nobody holds
C10_Witness ==
    /\ last.bot = "activity" /\ last.pr = 1 /\ last.login = "bob"
    /\ last.tier = "issue_comment" /\ last.acted
    /\ "stale" \in prLabels[1]
    /\ assignees[3] = {}
    /\ ~last.ret

\* the calls of the Activity Bot up to the stale check, and the posting itself
ActivityHardCalls(p) ==
    {Call("get_pull", p), Call("get_labels", p), Call("create_issue_comment", p)}

\* the step taken is a run of the Activity Bot for a comment on p by its author
ActivityStepOf(p) ==
    /\ last'.bot = "activity" /\ last'.acted /\ last'.tier = "issue_comment"
    /\ last'.pr = p /\ last'.login = prAuthor(p)

\* C11: a run of the Activity Bot for a comment of the author on a pull
\* request that carries the "stale" label posts the encouragement comment and
\* returns true whichever of the calls that remove the label, look up a linked
\* issue or assign it raise; the label is removed unless its removal raised,
\* and every linked issue without assignee whose own calls did not raise is
\* assigned to the author.
C11_EncouragementAlways ==
    [][\A p \in PRs :
        (/\ ActivityStepOf(p)
         /\ "stale" \in prLabels[p]
         /\ failed' \cap ActivityHardCalls(p) = {})
        => /\ Posted(p, "encouragement_message")
           /\ last'.ret
           /\ Call("remove_from_labels", p) \notin failed' => "stale" \notin prLabels'[p]
           /\ \A n \in LinkedIssuesOf(p) :
                  (/\ assignees[n] = {}
                   /\ Call("get_issue", n) \notin failed'
                   /\ Call("add_to_assignees", n) \notin failed')
                  => assignees'[n] = {prAuthor(p)}
      ]_vars

\* C11 witness: the Activity Bot posted the encouragement on pull request 2
\* although one call for issue 3 raised, and issue 4 was still assigned
C11_Witness ==
    /\ last.bot = "activity" /\ last.pr = 2 /\ last.ret
    /\ failed = {Call("get_issue", 3)}
    /\ CountOf(prComments[2], "encouragement_message") = 1
    /\ assignees[3] = {} /\ assignees[4] = {"bob"}
    /\ "stale" \notin prLabels[2]

\* the step taken is a run of the Reopen Bot that reaches handle_pr_reopen
ReopenHandled ==
    last'.bot = "reopen" /\ last'.acted /\ last'.tier = "pull_request_target"

\* the calls remove_stale_label makes for p
LabelCalls(p) ==
    {Call("get_pull", p), Call("get_labels", p), Call("remove_from_labels", p)}

RunStarted ==
    \/ last'.bot = "stale" /\ last'.tier = "start"
    \/ last'.bot \in {"reopen", "activity"}

\* the result of a run that stops at a precondition: failure, nothing changed
\* in the tracker, no call that could raise, no loop entered
FailedAtStart == ~last'.ret /\ UNCHANGED tracker /\ failed' = {} /\ pc' = "idle"

\* C13: run() of each of the three bots with the client not initialized
\* returns failure and changes nothing; so does run() of the Reopen Bot with
\* an event type other than "pull_request_target", run() of the Activity Bot
\* with an event type other than "issue_comment", and run() of either with
\* no event payload.
C13_FatalPreconditions ==
    [][/\ (RunStarted /\ ~last'.acted) => FailedAtStart
       /\ (/\ last'.bot = "reopen"
           /\ last'.tier # "pull_request_target" \/ last'.pr = NoPayload.number)
          => FailedAtStart
       /\ (/\ last'.bot = "activity"
           /\ last'.tier # "issue_comment" \/ last'.pr = NoPayload.number)
          => FailedAtStart
      ]_vars

\* C13 witness: the Stale-PR Bot was started without its client while both
\* pull requests were sixty days inactive, and left them open
C13_Witness ==
    /\ last.bot = "stale" /\ last.tier = "start" /\ ~last.acted /\ ~last.ret
    /\ pc = "idle"
    /\ \A p \in PRs : prState[p] = "open" /\ HasChangesRequested(p)
    /\ now = DAYS_BEFORE_CLOSE * TicksPerDay

\* the open pull requests
OpenSet == {p \in PRs : prState[p] = "open"}

\* C14: whichever remote calls raise, a run of the Stale-PR Bot that read the
\* list of open pull requests holds each open pull request once; each
\* iteration is for the head of what is left of the list and leaves the rest,
\* whether or not a call raised in it; an iteration in which no call raised
\* acts by its tier (at sixty days the pull request is closed) whatever
\* happened to the pull requests before it; the loop is left only with the
\* list exhausted, run() then returns True with no exception; and every run
\* that entered the loop ends.
C14_BatchIsolation ==
    /\ [][/\ (pc = "idle" /\ pc' = "loop") =>
                 /\ Range(open_prs') = OpenSet
                 /\ NoRepeats(open_prs')
          /\ StaleStep =>
                 /\ last'.bot = "stale" /\ last'.pr = Head(open_prs)
                 /\ open_prs' = Tail(open_prs)
                 /\ pc' = "loop"
                 /\ (failed' = {} /\ last'.days >= DAYS_BEFORE_CLOSE) =>
                        /\ Posted(ThePR, "close_message")
                        /\ prState'[ThePR] = "closed"
          /\ (pc = "loop" /\ pc' = "idle") =>
                 /\ open_prs = <<>>
                 /\ last'.ret
          ]_vars
    /\ (pc = "loop" ~> pc = "idle")

\* C14 witness: in one run a call raised while pull request 1 was processed,
\* which is still open and without the closing message, and pull request 2
\* was closed by the iteration after it
C14_Witness ==
    /\ pc = "loop" /\ open_prs = <<>>
    /\ last.bot = "stale" /\ last.pr = 2 /\ last.tier = "close" /\ last.ret
    /\ failed = {}
    /\ prState[2] = "closed"
    /\ prState[1] = "open" /\ CountOf(prComments[1], "close_message") = 0
    /\ CountOf(prComments[2], "close_message") = 1

\* the numbers the body refers to by one of the eight keywords, in any
\* letter case, followed by a reference
KeywordLinks(body) ==
    {n \in Nat : \E i \in 1..(Len(body) - 1) :
        /\ Lower(body[i].word) \in Keywords
        /\ body[i + 1] = Ref(n)}

\* C15 (as claimed): the list extract_linked_issues returns holds each number
\* once, and holds exactly the numbers N for which the body has one of the
\* keywords fix, fixes, close, closes, closed, resolve, resolves, resolved,
\* in any letter case, followed by #N; it is empty for a body without such a
\* reference and for the empty or absent body.
C15_ExtractorAsClaimed ==
    last.bot = "extract" =>
        /\ NoRepeats(last.ret)
        /\ Range(last.ret) = {n \in {3, 4} : n \in KeywordLinks(last.pr_body)}

\* the step taken is a run of the Reopen Bot for the reopening of p by its
\* author
ReopenStepOf(p) ==
    /\ last'.bot = "reopen" /\ last'.acted /\ last'.tier = "pull_request_target"
    /\ last'.pr = p /\ last'.login = prAuthor(p)

\* the calls reassign_issues_to_author makes for issue n
IssueCalls(n) ==
    {Call("get_issue", n), Call("add_to_assignees", n), Call("create_comment", n)}

\* C16: in a run of the Reopen Bot, whichever calls raise and whichever
\* linked number is not found, every linked issue that has no assignee and
\* whose own calls are answered gets the author as assignee and one welcome
\* comment and is in the returned list.
C16_IssueIsolation ==
    [][\A p \in PRs : ReopenStepOf(p) =>
        \A n \in LinkedIssuesOf(p) :
            (assignees[n] = {} /\ failed' \cap IssueCalls(n) = {}) =>
                /\ assignees'[n] = {prAuthor(p)}
                /\ Welcomed(n)
                /\ n \in Range(last'.reassigned)
      ]_vars

\* C16 witness: assigning issue 3 raised in a run of the Reopen Bot for pull
\* request 2, and issue 4 after it was reassigned, welcomed and returned
C16_Witness ==
    /\ last.bot = "reopen" /\ last.pr = 2 /\ last.login = "bob"
    /\ failed = {Call("add_to_assignees", 3)}
    /\ assignees[3] = {} /\ issueComments[3] = <<>>
    /\ assignees[4] = {"bob"}
    /\ CountOf(issueComments[4], "welcome_message") = 1
    /\ last.reassigned = <<4>> /\ last.ret

\* the times at which the Reopen Bot handled a reopening of p after the
\* Stale-PR Bot had closed it: it welcomed the author back on a linked issue
\* the author still holds, at or after a closing message on p
ReopenedAt(p) ==
    {t \in 0..now :
        /\ \E i \in 1..Len(prComments[p]) :
               /\ prComments[p][i].body = "close_message"
               /\ prComments[p][i].created_at <= t
        /\ \E n \in LinkedIssuesOf(p) :
               /\ prAuthor(p) \in assignees[n]
               /\ \E i \in 1..Len(issueComments[n]) :
                      /\ issueComments[n][i].body = "welcome_message"
                      /\ issueComments[n][i].created_at = t}

\* C17 (as claimed): an iteration over a pull request that the bot had
\* closed and whose reopening the Reopen Bot handled fewer than sixty days
\* ago leaves the pull request open and its author assigned to its linked
\* issues.
C17_ReopenedStaysOpen ==
    [][\A p \in PRs :
        (/\ StaleStep /\ ThePR = p
         /\ \E t \in ReopenedAt(p) : now - t < DAYS_BEFORE_CLOSE * TicksPerDay)
        => /\ prState'[p] = "open"
           /\ \A n \in LinkedIssuesOf(p) : assignees'[n] = assignees[n]
      ]_vars

\* the bot's account has posted the stale notice on p
HasStaleNotice(p) ==
    \E i \in 1..Len(prComments[p]) :
        /\ prComments[p][i].login = BotLogin
        /\ prComments[p][i].body = "unassign_message"

\* C18 (as claimed): in every state reached by runs of the Stale-PR Bot whose
\* remote calls may raise, with no run of the Reopen Bot or of the Activity
\* Bot, an open pull request that bears the bot's stale notice carries the
\* "stale" label
C18_NoticeImpliesLabel ==
    \A p \in PRs :
        (prState[p] = "open" /\ HasStaleNotice(p)) => "stale" \in prLabels[p]

\* what the code does instead: an iteration over an open pull request that
\* bears the notice without the label never adds the label
C18_LabelNeverRepaired ==
    [][\A p \in PRs :
        (/\ StaleStep /\ ThePR = p
         /\ prState[p] = "open" /\ HasStaleNotice(p)
         /\ "stale" \notin prLabels[p])
        => "stale" \notin prLabels'[p]
      ]_vars

\* no bot has assigned anyone since the start: the Reopen Bot has welcomed
\* nobody on an issue, and the Activity Bot has encouraged nobody but p's author
NobodyClaimedSince(p) ==
    /\ \A n \in Issues : issueComments[n] = <<>>
    /\ \A q \in PRs \ {p} : CountOf(prComments[q], "encouragement_message") = 0

\* C19 (as claimed): a run of the Activity Bot for a comment of the author on
\* pull request 1, which bears the stale notice and the "stale" label (the
\* unassign tier removed the author from issue 3, which the pull request
\* links), removes the label and adds the author back as assignee of issue 3
\* when no bot has assigned it to anyone in between
C19_RoundTripAsClaimed ==
    [][(/\ ActivityStepOf(1)
        /\ HasStaleNotice(1) /\ "stale" \in prLabels[1]
        /\ NobodyClaimedSince(1))
       => /\ "stale" \notin prLabels'[1]
          /\ prAuthor(1) \in assignees'[3]
      ]_vars

\* C19: a run of the Activity Bot for a comment of the author on a pull
\* request that bears the stale notice and the "stale" label removes the
\* label and assigns to the author every linked issue that has no assignee
\* at that moment; an issue that has an assignee, a co-assignee the unassign
\* tier left in place included, keeps its assignees
C19_RoundTrip ==
    [][\A p \in PRs :
        (/\ ActivityStepOf(p)
         /\ HasStaleNotice(p) /\ "stale" \in prLabels[p])
        => /\ "stale" \notin prLabels'[p]
           /\ \A n \in Issues :
                  assignees'[n] = IF n \in LinkedIssuesOf(p) /\ assignees[n] = {}
                                  THEN {prAuthor(p)}
                                  ELSE assignees[n]
      ]_vars

\* C19 witness: the unassign tier posted its notice on pull request 1, the
\* author commented after it, and the Activity Bot (no Reopen Bot ran) has
\* removed the label and made the author the assignee of issue 3 again
C19_Witness ==
    /\ last.bot = "activity" /\ last.pr = 1 /\ last.ret
    /\ HasStaleNotice(1)
    /\ \E i, j \in 1..Len(prComments[1]) :
           /\ i < j
           /\ prComments[1][i].body = "unassign_message"
           /\ prComments[1][j].login = prAuthor(1)
    /\ "stale" \notin prLabels[1]
    /\ assignees[3] = {prAuthor(1)}
    /\ issueComments[3] = <<>>

\* the instants at which the bot's account posted this text on p
PostedTimes(p, body) ==
    {prComments[p][i].created_at : i \in {j \in 1..Len(prComments[p]) :
        prComments[p][j].login = BotLogin /\ prComments[p][j].body = body}}

\* the author of p has commented on p at or after an instant of T
AuthorCommentedSince(p, T) ==
    \E i \in 1..Len(prComments[p]) :
        /\ prComments[p][i].login = prAuthor(p)
        /\ \E t \in T : prComments[p][i].created_at >= t

\* C20 (as claimed): an iteration over a pull request that was marked stale,
\* whose author commented since, whose label the Activity Bot cleared, and
\* whose days_inactive, counted from that comment, is again from 14 to 59,
\* marks it stale again (notice posted, label added, author unassigned from
\* the linked issues); and an iteration over a pull request that was warned,
\* whose author commented since, and whose days_inactive is again from 7 to
\* 13, warns it again
C20_MarkedAgain ==
    [][\A p \in PRs :
        (StaleStep /\ ThePR = p /\ HasChangesRequested(p)) =>
        /\ (/\ AuthorCommentedSince(p, PostedTimes(p, "unassign_message"))
            /\ PostedTimes(p, "encouragement_message") # {}
            /\ "stale" \notin prLabels[p]
            /\ last'.days >= DAYS_BEFORE_UNASSIGN
            /\ last'.days < DAYS_BEFORE_CLOSE)
           => /\ Posted(p, "unassign_message")
              /\ "stale" \in prLabels'[p]
              /\ \A n \in LinkedIssuesOf(p) : prAuthor(p) \notin assignees'[n]
        /\ (/\ AuthorCommentedSince(p, PostedTimes(p, "warning_message"))
            /\ PostedTimes(p, "unassign_message") = {}
            /\ last'.days >= DAYS_BEFORE_STALE_WARNING
            /\ last'.days < DAYS_BEFORE_UNASSIGN)
           => Posted(p, "warning_message")
      ]_vars

\* what the code does instead: an iteration over a pull request that bears
\* the stale notice, the encouragement or the warning never posts a notice
\* or adds the label, and one over a pull request that bears the warning
\* never posts a warning
C20_NeverAgain ==
    [][\A p \in PRs :
        (StaleStep /\ ThePR = p) =>
        /\ (PostedTimes(p, "unassign_message") \cup PostedTimes(p, "warning_message")
              \cup PostedTimes(p, "encouragement_message") # {})
           => /\ ~Posted(p, "unassign_message")
              /\ prLabels'[p] = prLabels[p]
        /\ PostedTimes(p, "warning_message") # {} => ~Posted(p, "warning_message")
      ]_vars

\* C21 (as claimed): a run of the Activity Bot in which
\* handle_contributor_activity returns true, whichever remote calls raise,
\* leaves the pull request without the "stale" label
C21_TrueMeansUnlabelled ==
    [][\A p \in PRs :
        (ActivityStepOf(p) /\ last'.ret) => "stale" \notin prLabels'[p]
      ]_vars

\* what the code does instead: with the label still in place, the run for
\* the author's next comment posts one more encouragement
C21_SecondEncouragement ==
    [][\A p \in PRs :
        (/\ ActivityStepOf(p)
         /\ "stale" \in prLabels[p]
         /\ CountOf(prComments[p], "encouragement_message") > 0
         /\ failed' = {})
        => Posted(p, "encouragement_message")
      ]_vars

\* the step taken is one call of unassign_linked_issues
UnassignStep == last'.bot = "unassign"

\* C22 (as claimed): a call of unassign_linked_issues for a pull request
\* removes only the author of the pull request, only from issues that a
\* closing keyword of its body refers to; every issue keeps its other
\* assignees, every other issue keeps all of them, and nobody is added
C22_UnassignFrame ==
    [][UnassignStep =>
        \A n \in Issues :
            /\ assignees'[n] \subseteq assignees[n]
            /\ assignees[n] \ assignees'[n] \subseteq {last'.login}
            /\ n \notin KeywordLinks(last'.pr_body) => assignees'[n] = assignees[n]
      ]_vars

\* what the code does: the frame holds with the issues the extractor
\* returns in place of the issues a closing keyword refers to
C22_FrameOfExtracted ==
    [][UnassignStep =>
        \A n \in Issues :
            assignees'[n] = IF n \in Range(extract_linked_issues(last'.pr_body))
                            THEN assignees[n] \ {last'.login}
                            ELSE assignees[n]
      ]_vars

\* the frame of one iteration of process_stale_prs, failures included: only
\* the author of the pull request is removed, only from issues its body
\* links, and only by the unassign and close tiers
C22_FrameOfIteration ==
    [][StaleBotStep =>
        \A n \in Issues :
            /\ assignees'[n] \subseteq assignees[n]
            /\ assignees'[n] # assignees[n] =>
                   /\ StaleStep
                   /\ n \in LinkedIssuesOf(ThePR)
                   /\ assignees[n] \ assignees'[n] = {prAuthor(ThePR)}
                   /\ last'.tier \in {"unassign", "close"}
      ]_vars

\* the listings of p that the review lookup and the inactivity computation make
ActivityListings(p) ==
    {Call("get_reviews", p), Call("get_commits", p), Call("get_issue_comments", p)}

\* nothing of p, and no assignment, changes
NoTierAction(p) ==
    /\ prState'[p] = prState[p]
    /\ prLabels'[p] = prLabels[p]
    /\ prComments'[p] = prComments[p]
    /\ assignees' = assignees

\* C23 (as claimed): an iteration in which a listing of the reviews, commits
\* or comments of the pull request raises takes no tier action on it; and an
\* iteration in which a listing made by has_bot_comment raises posts no
\* warning and no stale notice that the scan, had it succeeded, would have
\* suppressed
C23_FailSafe ==
    [][\A p \in PRs :
        (StaleStep /\ ThePR = p) =>
        /\ failed' \cap ActivityListings(p) # {} => NoTierAction(p)
        /\ Posted(p, "warning_message") => WarnGuard(World, p, {})
        /\ Posted(p, "unassign_message") => UnassignGuard(World, p, {})
      ]_vars

\* the part that holds: no tier action when a listing of the reviews,
\* commits or comments raises
C23_NoActionOnUnreadable ==
    [][\A p \in PRs :
        (StaleStep /\ ThePR = p /\ failed' \cap ActivityListings(p) # {})
        => NoTierAction(p)
      ]_vars


====
